---- MODULE Spec2Model ----
(***************************************************************************)
(* Team channel provisioning and teardown of the game jam bot              *)
(* (src/src/channel.rs): handle_create_channels, create_team,              *)
(* handle_remove_channels and the rendering of ChannelCreationError.       *)
(*                                                                         *)
(* Every command is handled by a task.  A task is cut into steps at the    *)
(* points where it touches something shared: each acquisition of the       *)
(* PersistentState mutex and each call of the remote channel API is one    *)
(* step.  Role lookups and message sends touch nothing the handlers share  *)
(* and are part of the step they follow or precede.                        *)
(*                                                                         *)
(* A string is a sequence of one-character strings; a command's arguments  *)
(* (rest_command) are a sequence of such strings.                          *)
(***************************************************************************)
EXTENDS Integers, Sequences, FiniteSets, TLC

VARIABLES
    store,      \* PersistentState.channel_creators: records [owner, name, id]
    remote,     \* channels that exist on the remote side: records [id, parent]
    nextId,     \* the id the remote side gives to the next channel it creates
    task,       \* the handler tasks, one record each
    crashed,    \* a handler has panicked
    lock,       \* the task that holds the PersistentState mutex, 0 for none
    failed      \* the users whose record has been through a failed teardown

vars == <<store, remote, nextId, task, crashed, lock, failed>>

(***************************************************************************)
(* Bounds and inputs.                                                      *)
(***************************************************************************)
NumTasks == 2          \* handler tasks that can be in flight together
MaxId == 4             \* channel ids the remote side can hand out

Tasks == 1..NumTasks

JAMMER == "JAMMER"
ORGANIZER == "ORGANIZER"

\* The users that send commands, and the roles the role service reports.
Users == {1, 2, 3}
HeldRoles == (1 :> {JAMMER}) @@ (2 :> {ORGANIZER}) @@ (3 :> {})

\* The character U+0060, which a TLA+ string cannot hold, by name.
Backtick == "U+0060"

\* Arguments of create_channels: no word, a plain name, a name with a run
\* of two markdown characters, a name with a backtick.
CreateInputs ==
    { <<>>,
      << <<"a">> >>,
      << <<"b">>, <<"-", "-">> >>,
      << <<"a">>, <<Backtick>> >> }

\* Arguments of remove_channels: no word, the id 1, the id 2, a word that
\* is no number, two words that are numbers.
RemoveInputs ==
    { <<>>,
      << <<"1">> >>,
      << <<"2">> >>,
      << <<"x">> >>,
      << <<"1">>, <<"2">> >> }

\* What the remote side can answer to a creation request.
Kinds == {"Category", "Text", "Voice"}

(***************************************************************************)
(* Strings.                                                                *)
(***************************************************************************)
RECURSIVE join(_, _)
\* [&str]::join(sep)
join(words, sep) ==
    IF words = <<>> THEN <<>>
    ELSE IF Len(words) = 1 THEN Head(words)
    ELSE Head(words) \o sep \o join(Tail(words), sep)

Digits == {"0", "1", "2", "3", "4", "5", "6", "7", "8", "9"}

DigitValue(c) ==
    CASE c = "0" -> 0 [] c = "1" -> 1 [] c = "2" -> 2 [] c = "3" -> 3
      [] c = "4" -> 4 [] c = "5" -> 5 [] c = "6" -> 6 [] c = "7" -> 7
      [] c = "8" -> 8 [] c = "9" -> 9

RECURSIVE DecimalValue(_)
DecimalValue(s) ==
    IF s = <<>> THEN 0
    ELSE 10 * DecimalValue(SubSeq(s, 1, Len(s) - 1)) + DigitValue(s[Len(s)])

\* u64::MAX, 18446744073709551615, as its digits
U64Max ==
    <<"1", "8", "4", "4", "6", "7", "4", "4", "0", "7",
      "3", "7", "0", "9", "5", "5", "1", "6", "1", "5">>

RECURSIVE strip_zeros(_)
strip_zeros(s) ==
    IF s # <<>> /\ Head(s) = "0" THEN strip_zeros(Tail(s)) ELSE s

\* Whether the digits d (no leading zero) denote a number <= u64::MAX.
fits_u64(d) ==
    \/ Len(d) < Len(U64Max)
    \/ /\ Len(d) = Len(U64Max)
       /\ \/ d = U64Max
          \/ \E i \in 1..Len(d) :
                /\ DigitValue(d[i]) < DigitValue(U64Max[i])
                /\ \A j \in 1..(i - 1) : d[j] = U64Max[j]

\* str::parse::<u64>(): an optional "+", then one or more digits, in range.
\* The result is <<n>> for Ok(n) and <<>> for Err.
parse_u64(s) ==
    LET body == IF s # <<>> /\ Head(s) = "+" THEN Tail(s) ELSE s
    IN  IF body # <<>>
           /\ \A i \in 1..Len(body) : body[i] \in Digits
           /\ fits_u64(strip_zeros(body))
        THEN <<DecimalValue(body)>>
        ELSE <<>>

\* INVALID_REGEX: one or more backticks somewhere in the string
INVALID_REGEX_is_match(s) == \E i \in 1..Len(s) : s[i] = Backtick

\* The characters of the class of MARKDOWN_ESCAPE_REGEX
MarkdownChars ==
    {"-", "_", "+", "*", "\"", "#", "=", ".", "⋅", "\\", "<", ">", "{", "}"}

RECURSIVE markdown_escape(_, _)
\* MARKDOWN_ESCAPE_REGEX.replace_all(s, "\\" + match): one backslash in
\* front of every maximal run of characters of the class.  inRun says
\* whether the character before s belongs to a run.
markdown_escape(s, inRun) ==
    IF s = <<>> THEN <<>>
    ELSE IF Head(s) \in MarkdownChars
         THEN (IF inRun THEN <<>> ELSE <<"\\">>)
              \o <<Head(s)>> \o markdown_escape(Tail(s), TRUE)
         ELSE <<Head(s)>> \o markdown_escape(Tail(s), FALSE)

(***************************************************************************)
(* PersistentState.                                                        *)
(***************************************************************************)
is_allowed_channel(s, user) == ~ \E r \in s : r.owner = user

\* Option<&(String, ChannelId)>: <<>> is None, <<name, id>> is Some.
get_channel_info(s, user) ==
    IF \E r \in s : r.owner = user
    THEN LET r == CHOOSE r \in s : r.owner = user IN <<r.name, r.id>>
    ELSE <<>>

register_channel_creation(s, user, name, id) ==
    {r \in s : r.owner # user} \cup {[owner |-> user, name |-> name, id |-> id]}

remove_channel(s, user) == {r \in s : r.owner # user}

(***************************************************************************)
(* The role service.                                                       *)
(***************************************************************************)
has_role(user, role) == role \in HeldRoles[user]

(***************************************************************************)
(* The remote channel API.  A creation answers Err, or creates a channel   *)
(* and answers with a channel of some kind; a deletion answers Ok or Err.  *)
(***************************************************************************)
CreateResponses == {"Err"} \cup Kinds
DeleteResponses == {"Ok", "Err"}

channel_exists(r, id) == \E c \in r : c.id = id

\* The remote side after a creation under parent (0: no parent).
created(r, id, parent) == r \cup {[id |-> id, parent |-> parent]}

\* The remote side after the deletion of a category: its children go too.
deleted(r, id) == {c \in r : c.id # id /\ c.parent # id}

(***************************************************************************)
(* The decisions of the handlers.                                          *)
(***************************************************************************)
\* handle_create_channels: the requester holds JAMMER or ORGANIZER.
may_create(user) == has_role(user, JAMMER) \/ has_role(user, ORGANIZER)

\* A handle_remove_channels with the gate of handle_create_channels.
may_remove_as_create(author) ==
    has_role(author, JAMMER) \/ has_role(author, ORGANIZER)

\* handle_remove_channels: the author holds ORGANIZER.
may_remove(author) == has_role(author, ORGANIZER)

\* A create_team that never finds the requester's record.
already_created_never(s, user) == FALSE

\* create_team: the requester has a record already.
already_created(s, user) == ~is_allowed_channel(s, user)

\* create_team: game_name
game_name(args) == join(args, <<" ">>)

\* A create_team that does not look for backticks.
validate_name_no_regex(args) ==
    IF Len(args) = 0 THEN "NoName" ELSE "ok"

\* A create_team that does not look at the number of words.
validate_name_no_empty_check(args) ==
    IF INVALID_REGEX_is_match(game_name(args)) THEN "InvalidName" ELSE "ok"

\* create_team: the checks of the name, in the order of the code.
validate_name(args) ==
    IF Len(args) = 0 THEN "NoName"
    ELSE IF INVALID_REGEX_is_match(game_name(args)) THEN "InvalidName"
    ELSE "ok"

\* A create_team that takes any channel as the category.
category_result_any_kind(resp) ==
    IF resp = "Err" THEN "CategoryCreationFailed" ELSE "ok"

\* create_team: what the answer to the category request leads to.
category_result(resp) ==
    IF resp = "Err" THEN "CategoryCreationFailed"
    ELSE IF resp = "Category" THEN "ok"
    ELSE "CategoryNotCreated"

\* create_team: what the answer to the text request leads to.  The accepted
\* kind is GuildChannel::Category.
text_result(resp) ==
    IF resp = "Err" THEN "TextCreationFailed"
    ELSE IF resp = "Category" THEN "ok"
    ELSE "TextNotCreated"

\* create_team: what the answer to the voice request leads to.  The kind of
\* the channel is not looked at.
voice_result(resp) ==
    IF resp = "Err" THEN "VoiceCreationFailed" ELSE "ok"

\* An early return of create_team that deletes the category it made.
on_error_rollback(r, cat) == deleted(r, cat)

\* create_team: the remote side after a step that ends the run with an error
\* (the ? after the text and the voice request): nothing is taken back.
on_error(r, cat) == r

\* A handle_remove_channels that removes the record of the author.
removed_owner_author(t) == t.user

\* handle_remove_channels: the user whose record is removed, the user_id of
\* the argument.
removed_owner(t) == t.target

\* A create_team that keeps the name as typed.
markdown_safe_raw(args) == game_name(args)

\* create_team: game_name_markdown_safe
markdown_safe(args) == markdown_escape(game_name(args), FALSE)

\* A handle_remove_channels that parses the arguments whatever their number.
target_of_no_length_check(args) ==
    LET id == parse_u64(join(args, <<>>))
    IN  IF id = <<>> THEN [kind |-> "InvalidUserId", id |-> 0]
        ELSE [kind |-> "id", id |-> id[1]]

\* handle_remove_channels: the user id of the arguments.
target_of(args) ==
    IF Len(args) > 0
    THEN LET id == parse_u64(join(args, <<>>))
         IN  IF id = <<>> THEN [kind |-> "InvalidUserId", id |-> 0]
             ELSE [kind |-> "id", id |-> id[1]]
    ELSE [kind |-> "MissingUserId", id |-> 0]

\* A handle_remove_channels that goes on without a record of the target.
no_team_channels_never(s, user) == FALSE

\* handle_remove_channels: the target has no record.
no_team_channels(s, user) == is_allowed_channel(s, user)

\* A handle_remove_channels that removes the record whatever the answer.
removes_record_always(resp) == TRUE

\* A handle_remove_channels that never removes the record.
removes_record_never(resp) == FALSE

\* handle_remove_channels: the record is removed after this answer.
removes_record(resp) == resp = "Ok"

(***************************************************************************)
(* Tasks.                                                                  *)
(***************************************************************************)
\* A message handed to send_message.
Msg(kind, name, id) == [kind |-> kind, name |-> name, id |-> id]

\* A call of the remote channel API and its answer.
Call(op, resp) == [op |-> op, resp |-> resp]

IdleTask ==
    [cmd |-> "none", pc |-> "idle", user |-> 0, args |-> <<>>, target |-> 0,
     owned |-> "unk", info |-> <<>>, cat |-> 0, text |-> 0, result |-> "none",
     calls |-> <<>>, msgs |-> <<>>, reads |-> 0, writes |-> 0]

\* The handler returns: its outcome and the messages it sent last.
finish(t, result, msgs) ==
    [t EXCEPT !.pc = "done", !.result = result, !.msgs = @ \o msgs]

yesno(b) == IF b THEN "yes" ELSE "no"

\* A guard of the mutex that lives on after the statement that took it.
guard_kept(p) == p

\* The holder of the mutex after a statement of task p that locked it: the
\* guard is a temporary of the statement (in fmt, a local of the match arm)
\* and is dropped with it.
guard_after(p) == 0

Init ==
    /\ store = {}
    /\ remote = {}
    /\ nextId = 1
    /\ task = [p \in Tasks |-> IdleTask]
    /\ crashed = FALSE
    /\ lock = 0
    /\ failed = {}

\* handle_create_channels up to the call of create_team.
HandleCreateChannels(p) ==
    /\ ~crashed
    /\ task[p].pc = "idle"
    /\ \E user \in Users, args \in CreateInputs, lookup \in BOOLEAN :
         LET t == [IdleTask EXCEPT !.cmd = "create", !.user = user, !.args = args]
         IN  task' = [task EXCEPT ![p] =
                 IF ~lookup THEN finish(t, "RoleLookupFailed", <<>>)
                 ELSE IF ~may_create(user)
                      THEN finish(t, "Denied", <<Msg("NeedRole", <<>>, 0)>>)
                      ELSE [t EXCEPT !.pc = "check"]]
    /\ UNCHANGED <<store, remote, nextId, crashed, lock, failed>>

\* create_team: the lookup of the requester's record and the checks of the
\* name; NoName and InvalidName are sent back at once.
CreateTeamCheck(p) ==
    /\ ~crashed
    /\ lock = 0
    /\ task[p].pc = "check"
    /\ LET t == [task[p] EXCEPT !.reads = @ + 1,
                                !.owned = yesno(~is_allowed_channel(store, task[p].user))]
           v == validate_name(t.args)
       IN  task' = [task EXCEPT ![p] =
               IF already_created(store, t.user)
               THEN [t EXCEPT !.pc = "fmt", !.result = "AlreadyCreated"]
               ELSE IF v # "ok" THEN finish(t, v, <<Msg(v, <<>>, 0)>>)
                    ELSE [t EXCEPT !.pc = "category"]]
    /\ UNCHANGED <<store, remote, nextId, crashed>>
    /\ lock' = guard_after(p)
    /\ UNCHANGED failed

\* ChannelCreationError::fmt of AlreadyCreated, and the sending of it.
FmtAlreadyCreated(p) ==
    /\ ~crashed
    /\ lock = 0
    /\ task[p].pc = "fmt"
    /\ LET t == [task[p] EXCEPT !.reads = @ + 1]
           info == get_channel_info(store, t.user)
       IN  IF info = <<>>
           THEN /\ task' = [task EXCEPT ![p] = [t EXCEPT !.pc = "panicked"]]
                /\ crashed' = TRUE
           ELSE /\ task' = [task EXCEPT ![p] =
                       finish(t, "AlreadyCreated",
                              <<Msg("AlreadyCreated", info[1], info[2])>>)]
                /\ crashed' = crashed
    /\ UNCHANGED <<store, remote, nextId>>
    /\ lock' = guard_after(p)
    /\ UNCHANGED failed

\* create_team: the category.
CreateCategory(p) ==
    /\ ~crashed
    /\ task[p].pc = "category"
    /\ \E resp \in CreateResponses :
         LET t == [task[p] EXCEPT !.calls = Append(@, Call("create_category", resp))]
             r == category_result(resp)
         IN  /\ resp # "Err" => nextId <= MaxId
             /\ task' = [task EXCEPT ![p] =
                    IF r = "ok" THEN [t EXCEPT !.pc = "text", !.cat = nextId]
                    ELSE finish(t, r, <<Msg(r, <<>>, 0)>>)]
             /\ remote' = IF resp = "Err" THEN remote ELSE created(remote, nextId, 0)
             /\ nextId' = IF resp = "Err" THEN nextId ELSE nextId + 1
    /\ UNCHANGED <<store, crashed, lock, failed>>

\* create_team: the text channel under the category.
CreateText(p) ==
    /\ ~crashed
    /\ task[p].pc = "text"
    /\ \E resp \in CreateResponses :
         LET t == [task[p] EXCEPT !.calls = Append(@, Call("create_text", resp))]
             r == text_result(resp)
         IN  /\ resp # "Err" => nextId <= MaxId /\ channel_exists(remote, t.cat)
             /\ task' = [task EXCEPT ![p] =
                    IF r = "ok" THEN [t EXCEPT !.pc = "voice", !.text = nextId]
                    ELSE finish(t, r, <<Msg(r, <<>>, 0)>>)]
             /\ remote' = LET made == IF resp = "Err" THEN remote
                                      ELSE created(remote, nextId, t.cat)
                          IN  IF r = "ok" THEN made ELSE on_error(made, t.cat)
             /\ nextId' = IF resp = "Err" THEN nextId ELSE nextId + 1
    /\ UNCHANGED <<store, crashed, lock, failed>>

\* create_team: the voice channel under the category.  Its id is never read,
\* so the remote side's record of it is left out.
CreateVoice(p) ==
    /\ ~crashed
    /\ task[p].pc = "voice"
    /\ \E resp \in CreateResponses :
         LET t == [task[p] EXCEPT !.calls = Append(@, Call("create_voice", resp))]
             r == voice_result(resp)
         IN  /\ resp # "Err" => channel_exists(remote, t.cat)
             /\ task' = [task EXCEPT ![p] =
                    IF r = "ok" THEN [t EXCEPT !.pc = "commit"]
                    ELSE finish(t, r, <<Msg(r, <<>>, 0)>>)]
             /\ remote' = IF r = "ok" THEN remote ELSE on_error(remote, t.cat)
    /\ UNCHANGED <<store, nextId, crashed, lock, failed>>

\* create_team: the record is written; handle_create_channels sends the
\* confirmation.
RegisterChannelCreation(p) ==
    /\ ~crashed
    /\ lock = 0
    /\ task[p].pc = "commit"
    /\ LET t == [task[p] EXCEPT !.writes = @ + 1]
           safe == markdown_safe(t.args)
       IN  /\ store' = register_channel_creation(store, t.user, safe, t.cat)
           /\ task' = [task EXCEPT ![p] =
                  finish(t, "Created", <<Msg("Created", safe, t.text)>>)]
    /\ UNCHANGED <<remote, nextId, crashed>>
    /\ lock' = guard_after(p)
    /\ failed' = failed \ {task[p].user}

\* handle_remove_channels up to the first lookup in the store.
HandleRemoveChannels(p) ==
    /\ ~crashed
    /\ task[p].pc = "idle"
    /\ \E author \in Users, args \in RemoveInputs, lookup \in BOOLEAN :
         LET t == [IdleTask EXCEPT !.cmd = "remove", !.user = author, !.args = args]
             id == target_of(args)
         IN  task' = [task EXCEPT ![p] =
                 IF ~lookup THEN finish(t, "RoleLookupFailed", <<>>)
                 ELSE IF ~may_remove(author)
                      THEN finish(t, "Denied", <<Msg("WAT", <<>>, 0)>>)
                      ELSE IF id.kind # "id"
                           THEN finish(t, id.kind, <<Msg(id.kind, <<>>, 0)>>)
                           ELSE [t EXCEPT !.pc = "rcheck", !.target = id.id]]
    /\ UNCHANGED <<store, remote, nextId, crashed, lock, failed>>

\* handle_remove_channels: the target has team channels or not.
RemoveCheck(p) ==
    /\ ~crashed
    /\ lock = 0
    /\ task[p].pc = "rcheck"
    /\ LET t == [task[p] EXCEPT !.reads = @ + 1,
                                !.owned = yesno(~is_allowed_channel(store, task[p].target))]
       IN  task' = [task EXCEPT ![p] =
               IF no_team_channels(store, t.target)
               THEN finish(t, "NotFound", <<Msg("NotFound", <<>>, 0)>>)
               ELSE [t EXCEPT !.pc = "info"]]
    /\ UNCHANGED <<store, remote, nextId, crashed>>
    /\ lock' = guard_after(p)
    /\ UNCHANGED failed

\* handle_remove_channels: category_info
GetChannelInfo(p) ==
    /\ ~crashed
    /\ lock = 0
    /\ task[p].pc = "info"
    /\ LET t == [task[p] EXCEPT !.reads = @ + 1]
           info == get_channel_info(store, t.target)
       IN  IF info = <<>>
           THEN /\ task' = [task EXCEPT ![p] = [t EXCEPT !.pc = "panicked"]]
                /\ crashed' = TRUE
           ELSE /\ task' = [task EXCEPT ![p] = [t EXCEPT !.pc = "delete", !.info = info]]
                /\ crashed' = crashed
    /\ UNCHANGED <<store, remote, nextId>>
    /\ lock' = guard_after(p)
    /\ UNCHANGED failed

\* handle_remove_channels: the deletion of the category.
DeleteChannel(p) ==
    /\ ~crashed
    /\ task[p].pc = "delete"
    /\ \E resp \in DeleteResponses :
         LET t == [task[p] EXCEPT !.calls = Append(@, Call("delete_channel", resp))]
         IN  /\ resp = "Ok" => channel_exists(remote, t.info[2])
             /\ task' = [task EXCEPT ![p] =
                    IF removes_record(resp) THEN [t EXCEPT !.pc = "remove"]
                    ELSE finish(t, "DeleteFailed", <<>>)]
             /\ remote' = IF resp = "Ok" THEN deleted(remote, t.info[2]) ELSE remote
             /\ failed' = IF resp = "Err" THEN failed \cup {t.target} ELSE failed
    /\ UNCHANGED <<store, nextId, crashed, lock>>

\* handle_remove_channels: the record is removed.
RemoveChannel(p) ==
    /\ ~crashed
    /\ lock = 0
    /\ task[p].pc = "remove"
    /\ LET t == [task[p] EXCEPT !.writes = @ + 1]
       IN  /\ store' = remove_channel(store, removed_owner(t))
           /\ task' = [task EXCEPT ![p] = finish(t, "Removed", <<>>)]
    /\ UNCHANGED <<remote, nextId, crashed>>
    /\ lock' = guard_after(p)
    /\ UNCHANGED failed

\* The task is over; its slot takes the next command.
Retire(p) ==
    /\ ~crashed
    /\ task[p].pc = "done"
    /\ task' = [task EXCEPT ![p] = IdleTask]
    /\ UNCHANGED <<store, remote, nextId, crashed, lock, failed>>

\* One step of the handler task p.
Step(p) ==
    \/ HandleCreateChannels(p)
    \/ CreateTeamCheck(p)
    \/ FmtAlreadyCreated(p)
    \/ CreateCategory(p)
    \/ CreateText(p)
    \/ CreateVoice(p)
    \/ RegisterChannelCreation(p)
    \/ HandleRemoveChannels(p)
    \/ RemoveCheck(p)
    \/ GetChannelInfo(p)
    \/ DeleteChannel(p)
    \/ RemoveChannel(p)
    \/ Retire(p)

\* main: the event loop awaits the handling of an event before it takes the
\* next one, so one handler runs at a time.
Next == \E p \in {1} : Step(p)

Spec == Init /\ [][Next]_vars

\* The scheduling in which every command is handled by a task of its own and
\* the tasks run concurrently.
NextTasks == \E p \in Tasks : Step(p)

SpecTasks == Init /\ [][NextTasks]_vars

(***************************************************************************)
(* Properties.                                                             *)
(***************************************************************************)
records_of(u) == {r \in store : r.owner = u}

\* The kind a creation request asks for.
requested_kind(op) ==
    CASE op = "create_category" -> "Category"
      [] op = "create_text" -> "Text"
      [] op = "create_voice" -> "Voice"

\* A creation call of t failed or answered with a channel of another kind.
bad_creation(t) ==
    \E i \in 1..Len(t.calls) :
        /\ t.calls[i].op # "delete_channel"
        /\ t.calls[i].resp # requested_kind(t.calls[i].op)

\* The word is a number: one or more digits.
numeric(word) == word # <<>> /\ \A i \in 1..Len(word) : word[i] \in Digits

\* C1: a user never has more than one record in the store, and a
\* create_team that finds a record of the requester answers AlreadyCreated,
\* calls no channel creation and writes nothing to the store.
C1_SingleOwnership ==
    /\ \A u \in Users : Cardinality(records_of(u)) <= 1
    /\ \A p \in Tasks :
         (task[p].cmd = "create" /\ task[p].owned = "yes") =>
             /\ task[p].result = "AlreadyCreated"
             /\ task[p].calls = <<>>
             /\ task[p].writes = 0

\* C1 witness: a second attempt of an owner has been answered.
C1_Witness ==
    \E p \in Tasks :
        /\ task[p].cmd = "create" /\ task[p].pc = "done"
        /\ task[p].owned = "yes" /\ task[p].result = "AlreadyCreated"
        /\ records_of(task[p].user) # {}

C3_NoPartialCommit ==
    \A p \in Tasks :
        (task[p].cmd = "create" /\ bad_creation(task[p])) =>
            /\ task[p].writes = 0
            /\ task[p].result # "Created"

\* C4: a teardown whose deletion failed has written nothing and the record
\* it read is still in the store; a teardown whose deletion succeeded ends
\* with no record of the target.
C4_TeardownAtomicity ==
    \A p \in Tasks :
        (task[p].cmd = "remove" /\ task[p].pc = "done" /\ task[p].calls # <<>>) =>
            IF task[p].calls[1].resp = "Err"
            THEN /\ task[p].writes = 0
                 /\ [owner |-> task[p].target, name |-> task[p].info[1],
                     id |-> task[p].info[2]] \in store
            ELSE /\ task[p].result = "Removed"
                 /\ records_of(task[p].target) = {}

\* C4 witness: a teardown has ended after a failed deletion.
C4_Witness ==
    \E p \in Tasks :
        /\ task[p].cmd = "remove" /\ task[p].pc = "done"
        /\ task[p].calls = <<Call("delete_channel", "Err")>>
        /\ records_of(task[p].target) # {}

\* C5, as claimed: every create_team whose name holds a backtick answers
\* InvalidName, calls no channel creation and writes nothing.
C5_BacktickAlwaysInvalidName ==
    \A p \in Tasks :
        (/\ task[p].cmd = "create" /\ task[p].owned # "unk"
         /\ INVALID_REGEX_is_match(game_name(task[p].args))) =>
            /\ task[p].result = "InvalidName"
            /\ task[p].calls = <<>>
            /\ task[p].writes = 0

\* C5, amended: every create_team of a requester without a record whose
\* name holds a backtick answers InvalidName, calls no channel creation and
\* writes nothing; with a record the answer is AlreadyCreated, again with no
\* creation call and no write.
C5_BacktickRejected ==
    \A p \in Tasks :
        (/\ task[p].cmd = "create" /\ task[p].owned # "unk"
         /\ INVALID_REGEX_is_match(game_name(task[p].args))) =>
            /\ task[p].result =
                   (IF task[p].owned = "no" THEN "InvalidName" ELSE "AlreadyCreated")
            /\ task[p].calls = <<>>
            /\ task[p].writes = 0

\* C5 witness: a name with a backtick has been rejected.
C5_Witness ==
    \E p \in Tasks :
        /\ task[p].cmd = "create" /\ task[p].pc = "done"
        /\ INVALID_REGEX_is_match(game_name(task[p].args))
        /\ task[p].result = "InvalidName"
        /\ task[p].msgs = <<Msg("InvalidName", <<>>, 0)>>

\* C6: a create command of a user with neither JAMMER nor ORGANIZER, and a
\* remove command of an author without ORGANIZER, end with the refusal as
\* their only message, no access to the store and no call of the channel
\* API; with the role the command is not refused.
C6_AccessGate ==
    \A p \in Tasks :
        LET t == task[p]
            held == HeldRoles[t.user]
            allowed == IF t.cmd = "create" THEN held \cap {JAMMER, ORGANIZER} # {}
                       ELSE ORGANIZER \in held
            refusal == IF t.cmd = "create" THEN "NeedRole" ELSE "WAT"
        IN  (t.cmd # "none" /\ t.result # "RoleLookupFailed") =>
                IF allowed THEN t.result # "Denied"
                ELSE /\ t.pc = "done" /\ t.result = "Denied"
                     /\ t.msgs = <<Msg(refusal, <<>>, 0)>>
                     /\ t.reads = 0 /\ t.writes = 0 /\ t.calls = <<>>

\* C6 witness: a remove command of a user who holds JAMMER only was refused.
C6_Witness ==
    \E p \in Tasks :
        /\ task[p].cmd = "remove" /\ task[p].pc = "done"
        /\ HeldRoles[task[p].user] = {JAMMER}
        /\ task[p].result = "Denied"

\* C7: a remove command of an organizer whose arguments are more than one
\* word, or one word that is no number, ends with InvalidUserId before any
\* access to the store and any deletion.
C7_SingleNumericToken ==
    \A p \in Tasks :
        LET t == task[p]
        IN  (/\ t.cmd = "remove" /\ t.result \notin {"RoleLookupFailed", "Denied"}
             /\ \/ Len(t.args) > 1
                \/ Len(t.args) = 1 /\ ~numeric(t.args[1])) =>
                /\ t.result = "InvalidUserId"
                /\ t.reads = 0 /\ t.writes = 0 /\ t.calls = <<>>

\* C8: a teardown that finds no record of the target ends with NotFound, no
\* deletion call and no write to the store.
C8_NotFound ==
    \A p \in Tasks :
        (task[p].cmd = "remove" /\ task[p].owned = "no") =>
            /\ task[p].pc = "done" /\ task[p].result = "NotFound"
            /\ task[p].msgs = <<Msg("NotFound", <<>>, 0)>>
            /\ task[p].calls = <<>> /\ task[p].writes = 0

\* C8 witness: a teardown of a user without a record has ended.
C8_Witness ==
    \E p \in Tasks :
        /\ task[p].cmd = "remove" /\ task[p].pc = "done"
        /\ task[p].owned = "no" /\ task[p].result = "NotFound"
        /\ records_of(task[p].target) = {}

\* C9: a command that has ended, whatever its outcome (refused, invalid,
\* conflict, remote failure of the channel API, success), has sent exactly
\* one message.
C9_ExactlyOneReply ==
    \A p \in Tasks :
        (task[p].pc = "done" /\ task[p].result # "RoleLookupFailed") =>
            Len(task[p].msgs) = 1

C11_TeardownRetry ==
    \A p \in Tasks :
        LET t == task[p]
        IN  /\ (t.cmd = "remove" /\ t.pc = "done" /\ t.result = "DeleteFailed") =>
                   /\ t.target \in failed
                   /\ [owner |-> t.target, name |-> t.info[1], id |-> t.info[2]]
                          \in store
                   /\ channel_exists(remote, t.info[2])
            /\ (/\ t.cmd = "remove" /\ t.pc = "done" /\ t.target \in failed
                /\ t.calls = <<Call("delete_channel", "Ok")>>) =>
                   /\ t.result = "Removed"
                   /\ records_of(t.target) = {}
                   /\ ~channel_exists(remote, t.info[2])

\* C11 witness: the retry of a failed teardown has removed the record.
C11_Witness ==
    \E p \in Tasks :
        /\ task[p].cmd = "remove" /\ task[p].pc = "done"
        /\ task[p].target \in failed
        /\ task[p].result = "Removed"
        /\ records_of(task[p].target) = {}

C13_AlreadyOwnedReply ==
    \A p \in Tasks :
        LET t == task[p]
        IN  (t.cmd = "create" /\ t.pc = "done" /\ t.result = "AlreadyCreated") =>
                \E rec \in records_of(t.user), ch \in remote :
                    /\ ch.parent = rec.id
                    /\ t.msgs = <<Msg("AlreadyCreated", rec.name, ch.id)>>

RECURSIVE escape_each(_)
\* The name with a backslash in front of each single character of the class.
escape_each(s) ==
    IF s = <<>> THEN <<>>
    ELSE (IF Head(s) \in MarkdownChars THEN <<"\\">> ELSE <<>>)
         \o <<Head(s)>> \o escape_each(Tail(s))

\* C14: the escaped name of a name without backtick is the name with a
\* backslash in front of each single character of the class, so n
\* backslashes for a run of n, and every such name is escaped, never rejected.
C14_EscapeEachOccurrence ==
    \A p \in Tasks :
        LET t == task[p]
        IN  (t.cmd = "create" /\ t.pc = "done" /\ t.result = "Created") =>
                /\ ~INVALID_REGEX_is_match(game_name(t.args))
                /\ t.msgs = <<Msg("Created", escape_each(game_name(t.args)), t.text)>>
                /\ \A rec \in records_of(t.user) :
                       rec.name = escape_each(game_name(t.args))

\* The creation requests of one run, in the order of the code.
CreationOrder == <<"create_category", "create_text", "create_voice">>

mismatch_of(op) ==
    CASE op = "create_category" -> "CategoryNotCreated"
      [] op = "create_text" -> "TextNotCreated"
      [] op = "create_voice" -> "VoiceNotCreated"

\* C16: for each of the three creation requests, an answer of the requested
\* kind is accepted, and an answer without error of another kind ends the run
\* with the error of that request.
C16_TypeMismatch ==
    \A p \in Tasks :
        LET t == task[p]
            n == Len(t.calls)
        IN  t.cmd = "create" =>
                \A i \in 1..n :
                    LET c == t.calls[i]
                    IN  /\ c.resp = requested_kind(c.op) =>
                               \/ i < n
                               \/ t.pc \in {"text", "voice", "commit"}
                               \/ t.result = "Created"
                        /\ c.resp \notin {"Err", requested_kind(c.op)} =>
                               /\ i = n /\ t.pc = "done"
                               /\ t.result = mismatch_of(c.op)

\* C17: create_team looks at the record of the requester first, then at the
\* number of words, then at the backtick: an owner gets AlreadyCreated
\* whatever the name is, and no words from a requester without record give
\* NoName.
C17_ValidationPrecedence ==
    \A p \in Tasks :
        LET t == task[p]
            name == join(t.args, <<" ">>)
        IN  (t.cmd = "create" /\ t.owned # "unk") =>
                /\ t.owned = "yes" =>
                       /\ t.pc \in {"fmt", "done"}
                       /\ t.result = "AlreadyCreated"
                       /\ t.calls = <<>> /\ t.writes = 0
                /\ (t.owned = "no" /\ t.args = <<>>) =>
                       t.pc = "done" /\ t.result = "NoName"
                /\ (/\ t.owned = "no" /\ t.args # <<>>
                    /\ \E i \in 1..Len(name) : name[i] = Backtick) =>
                       t.pc = "done" /\ t.result = "InvalidName"
                /\ (/\ t.owned = "no" /\ t.args # <<>>
                    /\ \A i \in 1..Len(name) : name[i] # Backtick) =>
                       t.result \notin {"AlreadyCreated", "NoName", "InvalidName"}

\* C17 witness: an owner sent no name, or one with a backtick, and was told
\* of the channels there are.
C17_Witness ==
    \E p \in Tasks :
        /\ task[p].cmd = "create" /\ task[p].pc = "done"
        /\ task[p].owned = "yes" /\ task[p].result = "AlreadyCreated"
        /\ \/ task[p].args = <<>>
           \/ INVALID_REGEX_is_match(game_name(task[p].args))

\* C18: a run of create_team sends no deletion request, and after a text or
\* voice step that failed the category of the run is still there on the
\* remote side, with the channel the text step made if it made one, while
\* the requester has no record.
C18_NoRollback ==
    \A p \in Tasks :
        LET t == task[p]
        IN  t.cmd = "create" =>
                /\ \A i \in 1..Len(t.calls) : t.calls[i].op # "delete_channel"
                /\ (/\ t.pc = "done"
                    /\ t.result \in {"TextCreationFailed", "TextNotCreated",
                                     "VoiceCreationFailed"}) =>
                       /\ [id |-> t.cat, parent |-> 0] \in remote
                       /\ t.text # 0 => [id |-> t.text, parent |-> t.cat] \in remote
                       /\ t.calls[2].resp # "Err" =>
                              \E ch \in remote : ch.parent = t.cat
                       /\ records_of(t.user) = {}

\* C18 witness: the voice request failed after the category and the text
\* channel were made.
C18_Witness ==
    \E p \in Tasks :
        /\ task[p].cmd = "create" /\ task[p].pc = "done"
        /\ task[p].result = "VoiceCreationFailed"
        /\ [id |-> task[p].text, parent |-> task[p].cat] \in remote
        /\ records_of(task[p].user) = {}

\* The error a failed request is reported as.
error_of(op) ==
    CASE op = "create_category" -> "CategoryCreationFailed"
      [] op = "create_text" -> "TextCreationFailed"
      [] op = "create_voice" -> "VoiceCreationFailed"
      [] op = "delete_channel" -> "DeleteFailed"

\* C19: while one command is handled each remote operation is requested at
\* most once, and a request answered with an error is the last step of the
\* handler, which reports the error of that request.
C19_NoRetries ==
    \A p \in Tasks :
        LET t == task[p]
            n == Len(t.calls)
        IN  /\ \A i, j \in 1..n : t.calls[i].op = t.calls[j].op => i = j
            /\ \A i \in 1..n :
                   t.calls[i].resp = "Err" =>
                       /\ i = n /\ t.pc = "done"
                       /\ t.msgs # <<>>
                       /\ t.msgs[Len(t.msgs)].kind = error_of(t.calls[i].op)

\* The positions in front of a statement that locks the store.
StorePcs == {"check", "fmt", "commit", "rcheck", "info", "remove"}

\* The positions in front of a request to the remote channel API.
RemotePcs == {"category", "text", "voice", "delete"}

\* C20: no handler holds the lock of the store while one of its remote calls
\* is in flight or while it waits to be taken up or to return, so the lock is
\* free whenever a handler is about to use the store: the statement of that
\* handler can run whatever the other handlers wait for, and no handler
\* waits for the lock for ever.
C20_LockNotHeldAcrossRemoteCalls ==
    /\ \A p \in Tasks :
           task[p].pc \in RemotePcs \cup {"idle", "done"} => lock # p
    /\ ~crashed =>
           \A q \in Tasks : task[q].pc \in StorePcs => ENABLED Step(q)

\* C20 witness: one handler has read the store and waits for the remote side
\* while the handler of another user is about to use the store.
C20_Witness ==
    \E p, q \in Tasks :
        /\ task[p].user # task[q].user
        /\ task[p].pc \in RemotePcs /\ task[p].reads >= 1
        /\ task[q].pc \in StorePcs
        /\ ~crashed /\ lock = 0

\* The owners of the records before and after a step, and the users.
owners_around == Users \cup {r.owner : r \in store} \cup {r.owner : r \in store'}

\* The step is the write of task p for user V: the registration at the end
\* of a create_team of V, or the removal at the end of a teardown aimed at V.
write_for(p, V) ==
    /\ task'[p] # task[p]
    /\ task'[p].pc = "done"
    /\ \/ task[p].cmd = "create" /\ task[p].pc = "commit" /\ task[p].user = V
       \/ task[p].cmd = "remove" /\ task[p].pc = "remove" /\ task[p].target = V

\* C21: whenever the records of a user V change, the step is the write of a
\* create_team whose requester is V or of a teardown whose target is V; so
\* no handler working for U touches the record of another user, and a
\* teardown changes the record of its target and leaves the author's alone
\* when the two differ.
C21_FrameAcrossUsers ==
    [][\A V \in owners_around :
           records_of(V)' # records_of(V) => \E p \in Tasks : write_for(p, V)]_vars

\* C21 witness: an organizer with a record of their own has removed the
\* record of another user, and their own record is still there.
C21_Witness ==
    \E p \in Tasks :
        /\ task[p].cmd = "remove" /\ task[p].pc = "done"
        /\ task[p].result = "Removed"
        /\ task[p].target # task[p].user
        /\ records_of(task[p].target) = {}
        /\ records_of(task[p].user) # {}

\* No command is in flight: every handler is waiting for a command or has
\* returned.
quiescent == \A p \in Tasks : task[p].pc \in {"idle", "done"}

C23_MissingUserId ==
    [][\A p \in Tasks :
           (/\ task[p].pc = "idle"
            /\ task'[p].cmd = "remove"
            /\ task'[p].args = <<>>
            /\ ORGANIZER \in HeldRoles[task'[p].user]
            /\ task'[p].result # "RoleLookupFailed") =>
               /\ task'[p].pc = "done"
               /\ task'[p].result = "MissingUserId"
               /\ task'[p].msgs = <<Msg("MissingUserId", <<>>, 0)>>
               /\ task'[p].reads = 0 /\ task'[p].writes = 0
               /\ task'[p].calls = <<>>
               /\ store' = store /\ remote' = remote]_vars

\* C23 witness: an organizer sent remove_channels without arguments while
\* there was a record in the store, and was told that the user id is missing.
C23_Witness ==
    \E p \in Tasks :
        /\ task[p].cmd = "remove" /\ task[p].pc = "done"
        /\ task[p].args = <<>>
        /\ ORGANIZER \in HeldRoles[task[p].user]
        /\ task[p].result = "MissingUserId"
        /\ store # {}

====
